---------------------------- MODULE Spec2Model ----------------------------
(***************************************************************************)
(* A model of compile_files (src/project-compiler.py): the collection     *)
(* walk with its exclusion rules, the project tree rendering, and the     *)
(* write pass with its progress callback.                                 *)
(*                                                                         *)
(* Paths, file names, ignore rules and the output text are TLA+ strings,  *)
(* handled with Len, SubSeq and \o as the Python code handles str.  The    *)
(* three box-drawing prefixes of format_tree are written in ASCII here     *)
(* ("|   ", "|-- ", "+-- "), the module text being ASCII only.             *)
(***************************************************************************)
EXTENDS Integers, Sequences, FiniteSets, TLC

(***************************************************************************)
(* Bounds of the model.                                                    *)
(***************************************************************************)
\* longest .gitignore (number of rule lines) drawn by Init
MaxRules == 2
\* largest number of files in the flat directory drawn by Init
MaxFlat == 12
\* largest number of successive compile_files invocations of one caller
MaxRuns == 2

(***************************************************************************)
(* str helpers                                                             *)
(***************************************************************************)
\* Python: sub in s
Contains(sub, s) ==
    \E i \in 1..(Len(s) - Len(sub) + 1) : SubSeq(s, i, i + Len(sub) - 1) = sub

\* Python: s.endswith(suf)
endswith(s, suf) ==
    /\ Len(s) >= Len(suf)
    /\ SubSeq(s, Len(s) - Len(suf) + 1, Len(s)) = suf

\* Python: s.startswith(pre)
startswith(s, pre) ==
    /\ Len(s) >= Len(pre)
    /\ SubSeq(s, 1, Len(pre)) = pre

\* position of the first "/" of s, 0 when there is none
FirstSep(s) ==
    IF \E i \in 1..Len(s) : SubSeq(s, i, i) = "/"
    THEN CHOOSE i \in 1..Len(s) :
            /\ SubSeq(s, i, i) = "/"
            /\ \A j \in 1..(i - 1) : SubSeq(s, j, j) # "/"
    ELSE 0

\* Python: s.split(os.sep)
RECURSIVE split(_)
split(s) ==
    LET i == FirstSep(s) IN
    IF i = 0 THEN << s >>
    ELSE << SubSeq(s, 1, i - 1) >> \o split(SubSeq(s, i + 1, Len(s)))

\* os.path.join(a, b) for a relative b
join(a, b) == a \o "/" \o b

\* os.path.basename(p)
basename(p) == LET parts == split(p) IN parts[Len(parts)]

\* os.path.relpath(path, start) for a path at or below start
relpath(path, start) ==
    IF path = start THEN "."
    ELSE SubSeq(path, Len(start) + 2, Len(path))

\* the characters of the model's names, in code point order
Alphabet == "-./DF_abcdefghijklmnopqrstuvwxyz"

\* the rank of a one-character string (the order of Python's str comparison)
Ord(c) == CHOOSE i \in 1..Len(Alphabet) : SubSeq(Alphabet, i, i) = c

\* Python: a < b on str
RECURSIVE StrLess(_, _)
StrLess(a, b) ==
    IF b = "" THEN FALSE
    ELSE IF a = "" THEN TRUE
    ELSE IF SubSeq(a, 1, 1) = SubSeq(b, 1, 1)
         THEN StrLess(SubSeq(a, 2, Len(a)), SubSeq(b, 2, Len(b)))
         ELSE Ord(SubSeq(a, 1, 1)) < Ord(SubSeq(b, 1, 1))

(***************************************************************************)
(* The gitignore matcher: pathspec.PathSpec.from_lines("gitwildmatch", f)  *)
(* and PathSpec.match_file, for rule lines made of an optional "!", an     *)
(* optional leading "/", segments that are literals or globs with "*",     *)
(* and an optional trailing "/".                                           *)
(***************************************************************************)
\* a segment glob against one path segment: "*" matches any run of
\* characters (a segment holds no "/")
RECURSIVE GlobMatch(_, _)
GlobMatch(glob, s) ==
    IF glob = "" THEN s = ""
    ELSE IF SubSeq(glob, 1, 1) = "*"
    THEN \E k \in 0..Len(s) :
            GlobMatch(SubSeq(glob, 2, Len(glob)), SubSeq(s, k + 1, Len(s)))
    ELSE /\ s # ""
         /\ SubSeq(s, 1, 1) = SubSeq(glob, 1, 1)
         /\ GlobMatch(SubSeq(glob, 2, Len(glob)), SubSeq(s, 2, Len(s)))

\* a bare "*" segment is [^/]+, any other glob turns "*" into [^/]*
SegMatch(glob, s) ==
    IF glob = "*" THEN Len(s) >= 1 ELSE GlobMatch(glob, s)

\* a rule line compiled: include (FALSE for "!"), anchored (a "/" at the
\* start or in the middle), dir_only (a trailing "/"), and the segments
pattern(line) ==
    LET negated == startswith(line, "!")
        body    == IF negated THEN SubSeq(line, 2, Len(line)) ELSE line
        segs0   == split(body)
        dironly == segs0[Len(segs0)] = ""
        lead    == segs0[1] = ""
        single  == Len(segs0) = 1 \/ (Len(segs0) = 2 /\ segs0[2] = "")
        segs1   == IF lead THEN Tail(segs0) ELSE segs0
        segs    == IF dironly THEN SubSeq(segs1, 1, Len(segs1) - 1) ELSE segs1
    IN  [ include  |-> ~negated,
          anchored |-> lead \/ ~single,
          dir_only |-> dironly,
          segs     |-> segs ]

\* blank lines and comments compile to no pattern
IsRule(line) == line # "" /\ ~startswith(line, "#")

\* the compiled regular expression of a pattern against a relative path
PatternMatches(p, file) ==
    LET parts == split(file)
        n     == Len(p.segs)
    IN  IF p.anchored
        THEN /\ Len(parts) >= n
             /\ \A i \in 1..n : SegMatch(p.segs[i], parts[i])
             /\ p.dir_only => Len(parts) > n
        ELSE \E i \in 1..Len(parts) :
                /\ SegMatch(p.segs[1], parts[i])
                /\ p.dir_only => i < Len(parts)

\* PathSpec.match_file: the rules in order, the last matching rule wins
RECURSIVE match_file(_, _)
match_file(lines, file) ==
    IF lines = << >> THEN FALSE
    ELSE LET last == lines[Len(lines)]
             rest == SubSeq(lines, 1, Len(lines) - 1)
         IN  IF IsRule(last) /\ PatternMatches(pattern(last), file)
             THEN pattern(last).include
             ELSE match_file(rest, file)

(***************************************************************************)
(* Python float (IEEE 754 binary64, round to nearest, ties to even) for    *)
(* the values of the progress arithmetic: a float x with x = 0 or          *)
(* 1 <= x < 128 is a multiple of 2^-52 and is held as << hi, lo >> with    *)
(* x = (hi * 2^30 + lo) / 2^52 and 0 <= lo < 2^30.                         *)
(***************************************************************************)
\* the binary exponent e of a value in [2^e, 2^(e+1)), 0 for the value 0
FExp(hi) ==
    IF hi < 2^22 THEN 0
    ELSE CHOOSE e \in 0..7 : hi >= 2^(22 + e) /\ hi < 2^(23 + e)

\* hi * 2^30 + lo (lo < 2^31) plus a fraction of one unit, rounded to 53
\* significant bits: cmp is the fraction against 1/2 (-1, 0, 1) and nz
\* whether it is non-zero
FRound(hi0, lo0, cmp, nz) ==
    LET hi   == hi0 + (lo0 \div 2^30)
        lo   == lo0 % 2^30
        e    == FExp(hi)
        unit == 2^e
        low  == lo % unit
        odd  == (lo \div unit) % 2 = 1
        up   == IF e = 0
                THEN cmp = 1 \/ (cmp = 0 /\ odd)
                ELSE \/ 2 * low > unit
                     \/ 2 * low = unit /\ (nz \/ odd)
        new  == (lo - low) + (IF up THEN unit ELSE 0)
    IN  << hi + (new \div 2^30), new % 2^30 >>

\* Python: a + b
FAdd(a, b) == FRound(a[1] + b[1], a[2] + b[2], -1, FALSE)

\* Python: num / n for ints with 1 <= num / n < 128 (long division, 52
\* fraction bits, then the rounding)
FDiv(num, n) ==
    LET q0 == num \div n
        r0 == num % n
        d1 == (r0 * 2^15) \div n
        r1 == (r0 * 2^15) % n
        d2 == (r1 * 2^15) \div n
        r2 == (r1 * 2^15) % n
        d3 == (r2 * 2^15) \div n
        r3 == (r2 * 2^15) % n
        d4 == (r3 * 2^7) \div n
        r4 == (r3 * 2^7) % n
        hi == q0 * 2^22 + d1 * 2^7 + (d2 \div 2^8)
        lo == (d2 % 2^8) * 2^22 + d3 * 2^7 + d4
        cmp == IF 2 * r4 > n THEN 1 ELSE IF 2 * r4 = n THEN 0 ELSE -1
    IN  FRound(hi, lo, cmp, r4 > 0)

\* the int k (0 <= k < 128) as a float
FInt(k) == << k * 2^22, 0 >>

\* Python: a < b
FLess(a, b) == a[1] < b[1] \/ (a[1] = b[1] /\ a[2] < b[2])

\* Python: min(a, b), which returns a unless b < a
min(a, b) == IF FLess(b, a) THEN b ELSE a

(***************************************************************************)
(* The program's inputs and the filesystem it reads.                       *)
(***************************************************************************)
VARIABLES
    directory,          \* argument: the root directory
    extensions,         \* argument: the accepted extensions
    output_file,        \* argument: the path of the output artifact
    progress_callback,  \* argument: TRUE when a callback is passed
    invocations,        \* how many times the caller invokes compile_files
    fs,                 \* the directory tree below the root
    disk,               \* the output artifact on disk
    pc,                 \* the position of compile_files
    spec,               \* local: the loaded PathSpec (<< >> for None)
    file_count,         \* local
    all_files,          \* local
    docker_files,       \* local
    walk_i,             \* the next directory os.walk yields
    tree_output,        \* local
    progress_step,      \* local
    progress,           \* local
    outfile,            \* the output handle: open or not, and what was written
    idx,                \* the entry of all_files the write loop is at
    calls,              \* the values passed to progress_callback, in order
    blocks,             \* the entries whose content block is fully written
    result,             \* the value compile_files returned
    run,                \* the number of the current invocation
    first_disk          \* the artifact as the previous invocation left it

args == << directory, extensions, output_file, progress_callback, invocations >>
locals == << spec, file_count, all_files, docker_files, walk_i, tree_output,
             progress_step, progress, idx >>
vars == << args, fs, disk, pc, locals, outfile, calls, blocks, result, run,
           first_disk >>

\* os.path.dirname(p)
dirname(p) == SubSeq(p, 1, Len(p) - Len(basename(p)) - 1)

\* the elements of a sequence
Range(q) == { q[i] : i \in 1..Len(q) }

\* os.walk(directory): one (root, files) per directory, top-down; a root
\* that does not exist or cannot be listed yields nothing (os.walk drops
\* the error of scandir when no onerror is passed)
os_walk == IF fs.state = "ok" THEN fs.walk ELSE << >>

\* os.path.exists(p) for a file of the tree
exists(p) ==
    /\ fs.state # "missing"
    /\ \E i \in 1..Len(fs.walk) :
          fs.walk[i].root = dirname(p) /\ basename(p) \in Range(fs.walk[i].files)

\* load_gitignore: the rules of <directory>/.gitignore, None (<< >>, as
\* falsy as a PathSpec without patterns) when there is no such file
load_gitignore(dir) ==
    IF exists(join(dir, ".gitignore")) THEN fs.gitignore ELSE << >>

\* is_ignored(path, spec, directory)
is_ignored(path, sp, dir) ==
    IF sp # << >> THEN match_file(sp, relpath(path, dir)) ELSE FALSE

\* line 28: the directories whose files the walk leaves out
skip_directory(root) ==
    \/ Contains("charting_library", root)
    \/ Contains("datafeed", root)
    \/ is_ignored(root, spec, directory)

\* include_file with the lockfile names compared to the path, not the name
include_file_lock_by_path(root, file) ==
    LET filepath == join(root, file) IN
    /\ ~(Contains("charting_library", filepath) \/ Contains("datafeed", filepath))
    /\ ~is_ignored(filepath, spec, directory)
    /\ filepath # "package-lock.json"
    /\ filepath # "yarn.lock"
    /\ \E ext \in extensions : endswith(file, "." \o ext)

\* lines 34-35: the files of a visited directory that are collected
include_file(root, file) ==
    LET filepath == join(root, file) IN
    /\ ~(Contains("charting_library", filepath) \/ Contains("datafeed", filepath))
    /\ ~is_ignored(filepath, spec, directory)
    /\ file # "package-lock.json"
    /\ file # "yarn.lock"
    /\ \E ext \in extensions : endswith(file, "." \o ext)

\* lines 31-37 for one directory: the paths appended, in listing order
RECURSIVE collected(_, _)
collected(root, files) ==
    IF files = << >> THEN << >>
    ELSE (IF include_file(root, Head(files))
          THEN << join(root, Head(files)) >> ELSE << >>)
         \o collected(root, Tail(files))

\* line 41: the auxiliary names, in their fixed order
DockerNames == << "Dockerfile", "docker-compose.yml" >>

\* line 43: an auxiliary file is taken when it exists and is not ignored
include_docker(dockerfile) ==
    LET dockerpath == join(directory, dockerfile) IN
    exists(dockerpath) /\ ~is_ignored(dockerpath, spec, directory)

\* lines 40-46: the auxiliary paths appended
collect_docker ==
    LET pick(n) == IF include_docker(DockerNames[n])
                   THEN << join(directory, DockerNames[n]) >> ELSE << >>
    IN  pick(1) \o pick(2)

(***************************************************************************)
(* The project tree: a dict is a function from its keys, None is the      *)
(* empty function (format_tree tests "if children", which None and {}      *)
(* both fail).                                                             *)
(***************************************************************************)
\* d[k] = v
Put(d, k, v) == [ x \in (DOMAIN d) \cup {k} |-> IF x = k THEN v ELSE d[x] ]

\* lines 54-57 for the parts of one path
RECURSIVE insert(_, _)
insert(current, parts) ==
    IF Len(parts) = 1 THEN Put(current, parts[1], << >>)
    ELSE LET key   == parts[1] \o "/"
             child == IF key \in DOMAIN current THEN current[key] ELSE << >>
         IN  Put(current, key, insert(child, Tail(parts)))

\* generate_project_tree(files, root_dir)
RECURSIVE generate_project_tree(_, _)
generate_project_tree(files, root_dir) ==
    IF files = << >> THEN << >>
    ELSE insert(generate_project_tree(SubSeq(files, 1, Len(files) - 1), root_dir),
                split(relpath(files[Len(files)], root_dir)))

\* the least string of a non-empty set
Least(S) == CHOOSE a \in S : \A b \in S : a = b \/ StrLess(a, b)

\* a key without the "/" that marks a directory
Bare(k) == IF endswith(k, "/") THEN SubSeq(k, 1, Len(k) - 1) ELSE k

\* sorted with the directory keys compared without their "/"
RECURSIVE sorted_bare(_)
sorted_bare(S) ==
    IF S = {} THEN << >>
    ELSE LET m == CHOOSE a \in S : \A b \in S : a = b \/ StrLess(Bare(a), Bare(b))
         IN  << m >> \o sorted_bare(S \ {m})

\* sorted(tree.items()): the keys are distinct, so the order is that of the keys
RECURSIVE sorted(_)
sorted(S) ==
    IF S = {} THEN << >> ELSE << Least(S) >> \o sorted(S \ {Least(S)})

\* format_tree(tree, indent): the loop from item i on
RECURSIVE format_tree(_, _), format_from(_, _, _, _)
format_from(tree, items, i, indent) ==
    IF i > Len(items) THEN << >>
    ELSE LET name       == items[i]
             children   == tree[name]
             is_last    == (i - 1) = Cardinality(DOMAIN tree) - 1
             prefix     == IF is_last THEN "+-- " ELSE "|-- "
             new_indent == indent \o (IF is_last THEN "    " ELSE "|   ")
         IN  << indent \o prefix \o name >>
             \o (IF DOMAIN children # {}
                 THEN format_tree(children, new_indent) ELSE << >>)
             \o format_from(tree, items, i + 1, indent)

format_tree(tree, indent) == format_from(tree, sorted(DOMAIN tree), 1, indent)

\* "\n".join(lines)
RECURSIVE join_lines(_)
join_lines(lines) ==
    IF lines = << >> THEN ""
    ELSE IF Len(lines) = 1 THEN lines[1]
    ELSE lines[1] \o "\n" \o join_lines(Tail(lines))

\* lines 73-74
tree_structure(files, dir) ==
    << basename(dir) \o "/" >>
    \o format_tree(generate_project_tree(files, dir), "")

(***************************************************************************)
(* The inputs Init draws.                                                  *)
(***************************************************************************)
\* the rule lines a .gitignore is made of
RuleLines ==
    { "build", "!/build/", "!build/keep.py", "*", "!*.py", "build/",
      "docker-compose.yml", "/d.txt" }

RuleLists == UNION { [1..n -> RuleLines] : n \in 0..MaxRules }

\* a project tree below dir, as os.walk yields it: with or without a
\* .gitignore (gi) and the auxiliary files (dockers)
ProjWalk(dir, gi, dockers) ==
    LET opt(name, b) == IF b THEN << name >> ELSE << >> IN
    << [ root  |-> dir,
         files |-> opt("docker-compose.yml", "docker-compose.yml" \in dockers)
                   \o opt(".gitignore", gi)
                   \o << "d.txt", "a.py", "package-lock.json" >>
                   \o opt("Dockerfile", "Dockerfile" \in dockers) ],
       [ root |-> join(dir, "a"), files |-> << "b.txt", "c.txt", "datafeed.py" >> ],
       [ root |-> join(dir, "build"), files |-> << "keep.py" >> ],
       [ root |-> join(join(dir, "build"), "sub"), files |-> << "x.py" >> ],
       [ root |-> join(dir, "datafeed_v2"), files |-> << "feed.py" >> ] >>

\* a directory that holds k files and nothing else
FlatWalk(dir, k) ==
    << [ root  |-> dir,
         files |-> [ i \in 1..k |->
                       "f" \o SubSeq("abcdefghijklmnopqrstuvwxyz", i, i) \o ".py" ] ] >>

Config(dir, walk, gitignore, exts, out, unreadable, state, writable, cb, n) ==
    [ dir |-> dir, walk |-> walk, gitignore |-> gitignore, exts |-> exts,
      out |-> out, unreadable |-> unreadable, state |-> state,
      writable |-> writable, cb |-> cb, n |-> n ]

\* every .gitignore of up to MaxRules lines over the project tree
RuleConfigs ==
    { Config("/srv/proj", ProjWalk("/srv/proj", TRUE, dockers), rules, exts,
             "/tmp/out.txt", {}, "ok", TRUE, TRUE, 1) :
        rules \in RuleLists,
        exts \in { {"py"}, {"txt", "yml"}, {"py", "txt", "json"} },
        dockers \in { {}, {"Dockerfile", "docker-compose.yml"} } }

\* every extension set and auxiliary file, under two root directories
RootConfigs ==
    { Config(dir, ProjWalk(dir, FALSE, dockers), << >>, exts,
             "/tmp/out.txt", {}, "ok", TRUE, TRUE, 1) :
        dir \in { "/srv/proj", "/srv/datafeed_app" },
        exts \in SUBSET { "py", "txt", "yml" },
        dockers \in SUBSET { "Dockerfile", "docker-compose.yml" } }

\* unreadable entries, missing or unlistable roots, an output artifact
\* inside or outside the root, repeated invocations
IOConfigs ==
    { Config("/srv/proj", ProjWalk("/srv/proj", FALSE, {"Dockerfile"}), << >>,
             {"py", "txt"}, out, unreadable, state, writable, cb, MaxRuns) :
        out \in { "/tmp/out.txt", "/srv/proj/out.txt" },
        unreadable \in { {}, {"/srv/proj/a/c.txt"}, {"/srv/proj/Dockerfile"} },
        state \in { "ok", "missing", "unlistable" },
        writable \in BOOLEAN,
        cb \in BOOLEAN }

\* flat directories of 0..MaxFlat files
FlatConfigs ==
    { Config("/srv/flat", FlatWalk("/srv/flat", k), << >>, {"py"},
             "/tmp/out.txt", {}, "ok", TRUE, cb, 1) :
        k \in 0..MaxFlat, cb \in BOOLEAN }

Configs == RuleConfigs \cup RootConfigs \cup IOConfigs \cup FlatConfigs

(***************************************************************************)
(* compile_files                                                           *)
(***************************************************************************)
Init ==
    /\ \E c \in Configs :
        /\ directory = c.dir
        /\ extensions = c.exts
        /\ output_file = c.out
        /\ progress_callback = c.cb
        /\ invocations = c.n
        /\ fs = [ state |-> c.state, walk |-> c.walk, gitignore |-> c.gitignore,
                  unreadable |-> c.unreadable, writable |-> c.writable ]
    /\ disk = [ exists |-> FALSE, text |-> "" ]
    /\ run = 1
    /\ first_disk = [ exists |-> FALSE, text |-> "", result |-> "none" ]
    /\ pc = "start"
    /\ spec = << >>
    /\ file_count = 0
    /\ all_files = << >>
    /\ docker_files = << >>
    /\ walk_i = 1
    /\ tree_output = ""
    /\ progress_step = FInt(0)
    /\ progress = FInt(0)
    /\ idx = 1
    /\ outfile = [ open |-> FALSE, text |-> "", marks |-> {} ]
    /\ calls = << >>
    /\ blocks = << >>
    /\ result = "none"

\* lines 22-24
LoadGitignore ==
    /\ pc = "start"
    /\ spec' = load_gitignore(directory)
    /\ file_count' = 0
    /\ all_files' = << >>
    /\ pc' = IF os_walk = << >> THEN "docker" ELSE "walk"
    /\ UNCHANGED << args, fs, disk, docker_files, walk_i, tree_output,
                    progress_step, progress, idx, outfile, calls, blocks,
                    result, run, first_disk >>

\* lines 27-37: one iteration of the walk loop, the inner loop included
WalkDir ==
    /\ pc = "walk"
    /\ LET root  == os_walk[walk_i].root
           files == os_walk[walk_i].files
           new   == IF skip_directory(root) THEN << >> ELSE collected(root, files)
       IN  /\ all_files' = all_files \o new
           /\ file_count' = file_count + Len(new)
    /\ walk_i' = walk_i + 1
    /\ pc' = IF walk_i = Len(os_walk) THEN "docker" ELSE "walk"
    /\ UNCHANGED << args, fs, disk, spec, docker_files, tree_output,
                    progress_step, progress, idx, outfile, calls, blocks,
                    result, run, first_disk >>

\* lines 39-46
CollectDockerfiles ==
    /\ pc = "docker"
    /\ docker_files' = collect_docker
    /\ all_files' = all_files \o collect_docker
    /\ file_count' = file_count + Len(collect_docker)
    /\ pc' = "tree"
    /\ UNCHANGED << args, fs, disk, spec, walk_i, tree_output, progress_step,
                    progress, idx, outfile, calls, blocks, result, run,
                    first_disk >>

\* Python: max(a, b) on ints
max(a, b) == IF b > a THEN b ELSE a

\* lines 72-78
GenerateTree ==
    /\ pc = "tree"
    /\ tree_output' = join_lines(tree_structure(all_files, directory))
    /\ progress_step' = FDiv(100, max(file_count, 1))
    /\ progress' = FInt(0)
    /\ pc' = "open"
    /\ UNCHANGED << args, fs, disk, spec, file_count, all_files, docker_files,
                    walk_i, idx, outfile, calls, blocks, result, run,
                    first_disk >>

\* the content of a source file: a text that names the file
Data(path) == "[data of " \o path \o "]"

\* lines 85 and 88: the fence of three backquotes, a character the module
\* text cannot hold in a string, written with tildes
Fence == "~~~"

\* line 82: the header block
Header(tree) ==
    "PROJECT TREE:\n" \o tree \o "\n\n"
    \o "==================================================" \o "\n\n"

\* open(output_file, 'w') fails when the artifact cannot be written or its
\* directory does not exist
cannot_open_output ==
    \/ ~fs.writable
    \/ fs.state = "missing" /\ startswith(output_file, directory \o "/")

\* the tree once the artifact is created: a new file of a walked
\* directory is listed there from now on
with_output(tree) ==
    [ tree EXCEPT !.walk =
        [ i \in 1..Len(tree.walk) |->
            IF /\ tree.walk[i].root = dirname(output_file)
               /\ basename(output_file) \notin Range(tree.walk[i].files)
            THEN [ tree.walk[i] EXCEPT
                     !.files = Append(tree.walk[i].files, basename(output_file)) ]
            ELSE tree.walk[i] ] ]

\* lines 80-82: open the artifact (created or truncated) and write the
\* header; a failure to open is caught at line 96
OpenOutput ==
    /\ pc = "open"
    /\ IF cannot_open_output
       THEN /\ result' = "Error"
            /\ pc' = "done"
            /\ UNCHANGED << fs, disk, outfile >>
       ELSE /\ disk' = [ exists |-> TRUE, text |-> "" ]
            /\ fs' = with_output(fs)
            /\ outfile' = [ open  |-> TRUE,
                            text  |-> Header(tree_output),
                            marks |-> { 0, Len(Header(tree_output)) } ]
            /\ pc' = "write"
            /\ UNCHANGED result
    /\ idx' = 1
    /\ UNCHANGED << args, spec, file_count, all_files, docker_files, walk_i,
                    tree_output, progress_step, progress, calls, blocks, run,
                    first_disk >>

\* infile.read(): the content of a source file; of the artifact itself,
\* the part of the text written so far that has reached the disk, a
\* prefix ending at one of the write calls
read(filepath, text, marks) ==
    IF filepath = output_file
    THEN { SubSeq(text, 1, n) : n \in marks \cup { Len(text) } }
    ELSE { Data(filepath) }

\* an open that never raises, as if errors='ignore' covered it
raises_never(filepath) == FALSE

\* line 86: open(filepath, 'r', ...) raises for an entry that cannot be
\* opened (errors='ignore' covers decoding only)
raises(filepath) == filepath \in fs.unreadable

\* lines 84-91: one iteration of the write loop; an entry that cannot be
\* opened raises inside the with block, which closes the artifact, and
\* line 96 turns the exception into the Error result
WriteEntry ==
    /\ pc = "write"
    /\ idx <= Len(all_files)
    /\ LET filepath == all_files[idx]
           t1       == outfile.text \o filepath \o Fence \o "\n"
       IN  IF raises(filepath)
           THEN /\ outfile' = [ open |-> FALSE, text |-> t1,
                                marks |-> outfile.marks \cup { Len(t1) } ]
                /\ disk' = [ exists |-> TRUE, text |-> t1 ]
                /\ result' = "Error"
                /\ pc' = "done"
                /\ UNCHANGED << progress, calls, blocks, idx >>
           ELSE /\ \E content \in read(filepath, t1, outfile.marks) :
                     LET t2 == t1 \o content
                         t3 == t2 \o "\n" \o Fence \o "\n"
                     IN  outfile' = [ open |-> TRUE, text |-> t3,
                                      marks |-> outfile.marks
                                                \cup { Len(t1), Len(t2), Len(t3) } ]
                /\ progress' = FAdd(progress, progress_step)
                /\ calls' = IF progress_callback
                            THEN Append(calls, min(progress', FInt(100)))
                            ELSE calls
                /\ blocks' = Append(blocks, filepath)
                /\ idx' = idx + 1
                /\ UNCHANGED << disk, result, pc >>
    /\ UNCHANGED << args, fs, spec, file_count, all_files, docker_files,
                    walk_i, tree_output, progress_step, run, first_disk >>

\* lines 93-95: the call for an empty list, the end of the with block and
\* the return of the output path
Finish ==
    /\ pc = "write"
    /\ idx > Len(all_files)
    /\ calls' = IF progress_callback /\ file_count = 0
                THEN Append(calls, FInt(100)) ELSE calls
    /\ outfile' = [ outfile EXCEPT !.open = FALSE ]
    /\ disk' = [ exists |-> TRUE, text |-> outfile.text ]
    /\ result' = "ok"
    /\ pc' = "done"
    /\ UNCHANGED << args, fs, locals, blocks, run, first_disk >>

\* the caller invokes compile_files again with the same arguments
RunAgain ==
    /\ pc = "done"
    /\ run < invocations
    /\ run' = run + 1
    /\ first_disk' = [ exists |-> disk.exists, text |-> disk.text,
                       result |-> result ]
    /\ pc' = "start"
    /\ spec' = << >>
    /\ file_count' = 0
    /\ all_files' = << >>
    /\ docker_files' = << >>
    /\ walk_i' = 1
    /\ tree_output' = ""
    /\ progress_step' = FInt(0)
    /\ progress' = FInt(0)
    /\ idx' = 1
    /\ outfile' = [ open |-> FALSE, text |-> "", marks |-> {} ]
    /\ calls' = << >>
    /\ blocks' = << >>
    /\ result' = "none"
    /\ UNCHANGED << args, fs, disk >>

Next ==
    \/ LoadGitignore
    \/ WalkDir
    \/ CollectDockerfiles
    \/ GenerateTree
    \/ OpenOutput
    \/ WriteEntry
    \/ Finish
    \/ RunAgain

Spec == Init /\ [][Next]_vars

(***************************************************************************)
(* Properties                                                              *)
(***************************************************************************)
\* the collection phase is over and the artifact is not yet opened
AfterCollection == pc \in { "tree", "open" }

\* the two auxiliary paths at the root
AuxPaths == { join(directory, DockerNames[n]) : n \in 1..2 }

\* the entries the directory walk produced
WalkEntries == SubSeq(all_files, 1, Len(all_files) - Len(docker_files))

\* the matcher's answer for a path, from the rules of the .gitignore on disk
Ignored(path) == is_ignored(path, load_gitignore(directory), directory)

\* the four conditions on a file's own path and name
FourConditions(path, file) ==
    /\ ~Contains("charting_library", path)
    /\ ~Contains("datafeed", path)
    /\ ~Ignored(path)
    /\ file \notin { "package-lock.json", "yarn.lock" }
    /\ \E ext \in extensions : endswith(file, "." \o ext)

\* C1 as stated: after the collection phase, a file found below the root
\* (the auxiliary names at the root aside) is in all_files if and only if
\* its path holds no excluded substring, the matcher does not report its
\* own relative path ignored, it is no lockfile and its name ends with an
\* accepted extension.
C1_Original ==
    AfterCollection =>
        \A i \in 1..Len(os_walk) : \A file \in Range(os_walk[i].files) :
            LET path == join(os_walk[i].root, file) IN
            path \notin AuxPaths =>
                (path \in Range(all_files) <=> FourConditions(path, file))

\* C1 amended: the same equivalence with a fifth condition, that the matcher
\* does not report the file's containing directory ("." for the root)
\* ignored; a file re-included by a negation rule is in the list only when
\* its directory is not ignored.
C1_Amended ==
    AfterCollection =>
        \A i \in 1..Len(os_walk) : \A file \in Range(os_walk[i].files) :
            LET path == join(os_walk[i].root, file) IN
            path \notin AuxPaths =>
                (path \in Range(all_files) <=>
                    FourConditions(path, file) /\ ~Ignored(os_walk[i].root))

\* a rule that ignores rel is followed by a negation rule that matches it
ReIncluded(rel) ==
    \E j, k \in 1..Len(spec) :
        /\ j < k
        /\ pattern(spec[j]).include /\ PatternMatches(pattern(spec[j]), rel)
        /\ ~pattern(spec[k]).include /\ PatternMatches(pattern(spec[k]), rel)

\* C1 witness: a file of a subdirectory that one rule ignores and a later
\* negation rule re-includes is in the list after the collection
C1_Witness ==
    /\ AfterCollection
    /\ \E p \in Range(WalkEntries) :
          /\ ReIncluded(relpath(p, directory))
          /\ Len(split(relpath(p, directory))) > 1

\* C2 as stated: no entry of the collected list, walk entry or auxiliary
\* entry, has a path that contains 'charting_library' or 'datafeed', also
\* when the substring is in the root directory's own path.
C2_Claim ==
    \A p \in Range(all_files) :
        ~Contains("charting_library", p) /\ ~Contains("datafeed", p)

\* the auxiliary files that exist at the root and are not ignored, in
\* their fixed order
AuxPresent ==
    SelectSeq(<< join(directory, "Dockerfile"),
                 join(directory, "docker-compose.yml") >>,
              LAMBDA p : exists(p) /\ ~Ignored(p))

\* C3 as stated: the auxiliary files that exist and are not ignored are
\* the last entries of the collected list, Dockerfile before
\* docker-compose.yml, and are found nowhere before these final positions,
\* whatever the extension set.
C3_Claim ==
    AfterCollection =>
        LET n == Len(all_files) - Len(AuxPresent) IN
        /\ n >= 0
        /\ SubSeq(all_files, n + 1, Len(all_files)) = AuxPresent
        /\ \A i \in 1..n : all_files[i] \notin Range(AuxPresent)

\* C4 as stated, for its count, order, range and last value: in a run that
\* completes without error the values passed to progress_callback are
\* non-decreasing, lie in [0,100] and end with exactly 100; there are N
\* calls for N > 0 entries and one call, with 100, for N = 0.
C4_Claim ==
    (pc = "done" /\ result = "ok" /\ progress_callback) =>
        LET N == Len(all_files) IN
        /\ Len(calls) = (IF N > 0 THEN N ELSE 1)
        /\ \A k \in 1..Len(calls) :
              ~FLess(calls[k], FInt(0)) /\ ~FLess(FInt(100), calls[k])
        /\ \A k \in 1..(Len(calls) - 1) : ~FLess(calls[k + 1], calls[k])
        /\ calls[Len(calls)] = FInt(100)

\* C5 as stated: a second invocation with the same arguments, nothing else
\* having changed the filesystem, leaves the artifact with the text the
\* first left, also when the output path lies inside the root.
C5_Claim ==
    (run >= 2 /\ pc = "done" /\ result = "ok" /\ first_disk.result = "ok") =>
        disk.text = first_disk.text

\* C6 as stated: with a root directory that does not exist or cannot be
\* listed the run ends with an Error result and the artifact is neither
\* created nor modified.
C6_Claim ==
    (fs.state \in { "missing", "unlistable" } /\ run = 1 /\ pc = "done") =>
        result = "Error" /\ ~disk.exists

\* C7 as stated: no file located in a skipped directory, or in any of its
\* descendant directories, is added to the list by the walk.
C7_Claim ==
    AfterCollection =>
        \A i \in 1..Len(os_walk) :
            LET root == os_walk[i].root IN
            ( \/ Contains("charting_library", root)
              \/ Contains("datafeed", root)
              \/ Ignored(root) ) =>
                \A p \in Range(WalkEntries) : ~startswith(p, root \o "/")

(***************************************************************************)
(* C8: the tree text, stated on the set of nodes rather than by recursion *)
(* on the dict.  A node is the sequence of the displayed names on its     *)
(* path: a directory's name ends with "/".                                *)
(***************************************************************************)
\* the node of the first k parts of a relative path of n parts
NodeOf(parts, k) ==
    [ j \in 1..k |-> IF j < Len(parts) THEN parts[j] \o "/" ELSE parts[j] ]

Nodes(files, dir) ==
    UNION { { NodeOf(split(relpath(p, dir)), k) :
                k \in 1..Len(split(relpath(p, dir))) } : p \in Range(files) }

Parent(node) == SubSeq(node, 1, Len(node) - 1)

\* the last sibling of its level: no sibling's name is after its own
IsLastSibling(node, nodes) ==
    \A s \in nodes :
        (Len(s) = Len(node) /\ Parent(s) = Parent(node)) =>
            ~StrLess(node[Len(node)], s[Len(s)])

\* depth-first order, the siblings of a level by name
Before(x, y) ==
    \/ Len(x) < Len(y) /\ SubSeq(y, 1, Len(x)) = x
    \/ \E j \in 1..Len(x) :
          /\ j <= Len(y)
          /\ SubSeq(x, 1, j - 1) = SubSeq(y, 1, j - 1)
          /\ StrLess(x[j], y[j])

RECURSIVE Indent(_, _, _)
Indent(node, nodes, j) ==
    IF j >= Len(node) THEN ""
    ELSE (IF IsLastSibling(SubSeq(node, 1, j), nodes) THEN "    " ELSE "|   ")
         \o Indent(node, nodes, j + 1)

NodeLine(node, nodes) ==
    Indent(node, nodes, 1)
    \o (IF IsLastSibling(node, nodes) THEN "+-- " ELSE "|-- ")
    \o node[Len(node)]

RECURSIVE InOrder(_, _)
InOrder(todo, nodes) ==
    IF todo = {} THEN << >>
    ELSE LET first == CHOOSE x \in todo : \A y \in todo : x = y \/ Before(x, y)
         IN  << NodeLine(first, nodes) >> \o InOrder(todo \ {first}, nodes)

\* C8: the tree text is the root's base name and "/", then one line per
\* distinct node in depth-first order with the directories and files of a
\* level sorted together by displayed name, each line made of one indent
\* per ancestor ("    " after a last sibling, "|   " otherwise), the
\* branch ("+-- " for a last sibling, "|-- " otherwise) and the name.
C8_TreeText ==
    pc \in { "open", "write", "done" } =>
        tree_output =
            join_lines(<< basename(directory) \o "/" >>
                       \o InOrder(Nodes(all_files, directory),
                                  Nodes(all_files, directory)))

\* C8 witness: the entries a/b.txt, a/c.txt and d.txt under proj
C8_Witness ==
    /\ pc = "open"
    /\ { relpath(p, directory) : p \in Range(all_files) }
          = { "a/b.txt", "a/c.txt", "d.txt" }
    /\ tree_output = "proj/\n|-- a/\n|   |-- b.txt\n|   +-- c.txt\n+-- d.txt"

\* the first entry of the list that cannot be opened
FirstBad ==
    CHOOSE i \in 1..Len(all_files) :
        /\ all_files[i] \in fs.unreadable
        /\ \A j \in 1..(i - 1) : all_files[j] \notin fs.unreadable

\* C9: when the artifact was opened and an entry of the list cannot be
\* opened for reading, the run ends with the Error result, the blocks
\* written are those of the entries before the failing one, no later
\* entry's block is started, the callback was called for the entries
\* before the failing one only, and the artifact handle is closed.
C9_Abort ==
    ( /\ pc = "done"
      /\ outfile.marks # {}
      /\ \E i \in 1..Len(all_files) : all_files[i] \in fs.unreadable ) =>
        /\ result = "Error"
        /\ blocks = SubSeq(all_files, 1, FirstBad - 1)
        /\ \A j \in (FirstBad + 1)..Len(all_files) :
              ~Contains(all_files[j] \o Fence, outfile.text)
        /\ Len(calls) = (IF progress_callback THEN FirstBad - 1 ELSE 0)
        /\ ~outfile.open
        /\ disk.text = outfile.text

\* C9 witness: a run aborted at an entry that has entries before and after
C9_Witness ==
    /\ pc = "done"
    /\ result = "Error"
    /\ progress_callback
    /\ \E i \in 2..(Len(all_files) - 1) :
          all_files[i] \in fs.unreadable /\ Len(blocks) = i - 1

\* the file leaves of the rendered tree
Leaves ==
    LET ts == tree_structure(all_files, directory) IN
    { i \in 2..Len(ts) : ~endswith(ts[i], "/") }

\* C10 as stated: the collected list holds each path at most once, so
\* file_count is the number of distinct included files, each has exactly
\* one content block, and the tree has as many file leaves as there are
\* content blocks.
C10_Claim ==
    (pc = "done" /\ result = "ok") =>
        /\ \A i, j \in 1..Len(all_files) : all_files[i] = all_files[j] => i = j
        /\ file_count = Cardinality(Range(all_files))
        /\ \A p \in Range(all_files) :
              Cardinality({ i \in 1..Len(blocks) : blocks[i] = p }) = 1
        /\ Cardinality(Leaves) = Len(blocks)

=============================================================================
